---------------------------- MODULE Spec2Model ----------------------------
(***************************************************************************)
(* A model of the core of openai-calculator (src/calculator.py):           *)
(* validate_expression, the request process_calculation builds, and the    *)
(* way it turns the completion service's reply into the returned mapping;  *)
(* and of its HTTP and tool-protocol front ends (src/mcp_server.py,        *)
(* src/mcp_calculator_server.py) with their service-client handles.        *)
(*                                                                         *)
(* Python values are records [type, value].  A str that carries user text  *)
(* (an expression) has a sequence of one-character strings as its value;   *)
(* every fixed message has a TLA+ string as its value.                     *)
(***************************************************************************)
EXTENDS Integers, Sequences, FiniteSets, TLC

VARIABLES
  pc,                 \* position of the current process_calculation call
  expression,         \* argument expression (a Python value)
  model,              \* argument model
  temperature,        \* argument temperature
  validation_result,  \* local validation_result of process_calculation
  requests,           \* the create(...) calls this call has made, in order
  reply,              \* what the service did with the request
  payload,            \* the mapping the service encoded in its arguments
  result,             \* the value process_calculation returned
  raised,             \* the exception that left process_calculation
  caller,             \* who made the current call: direct, http or tool
  earlier,            \* a finished call kept to compare later calls with
  imported,           \* whether the servers could import from calculator
  client,             \* the global client of mcp_server
  openai_client,      \* the global openai_client of mcp_calculator_server
  http_init,          \* what initialize_openai_client met, once it has run
  tool_init,          \* what app_lifespan met, once it has run
  http_request,       \* the request handle_calculate is answering
  http_response,      \* its answer: status and body
  tool_result         \* what evaluate_expression returned

\* The state of one process_calculation call.
callvars == <<pc, expression, model, temperature, validation_result, requests,
              reply, payload, result, raised>>

\* The state of the two servers around it.
servervars == <<imported, client, openai_client, http_init, tool_init,
                http_request, http_response, tool_result>>

vars == <<callvars, caller, earlier, servervars>>

---------------------------------------------------------------------------
(* Bounds of the model *)

\* Longest enumerated expression.
MaxLen == 3

---------------------------------------------------------------------------
(* Python values *)

Str(s) == [type |-> "str", value |-> s]

Number(n) == [type |-> "int", value |-> n]

Dict(m) == [type |-> "dict", value |-> m]

None == [type |-> "NoneType", value |-> "None"]

True == [type |-> "bool", value |-> "True"]

\* What a call that returns v hands back.
Returns(v) == [raised |-> FALSE, value |-> v]

\* What a call that raises hands back: the exception type and str(e).
Raises(exc, description) ==
  [raised |-> TRUE, value |-> [exc |-> exc, description |-> description]]

---------------------------------------------------------------------------
(* Characters and the regular expressions of validate_expression *)

Digits == {"0", "1", "2", "3", "4", "5", "6", "7", "8", "9"}

\* The class [\+\-\*\/].
Operators == {"+", "-", "*", "/"}

\* The class [\+\-\*\/\(\)].
OperatorsAndParens == Operators \cup {"(", ")"}

\* The class \s (its ASCII members that TLA+ strings can spell).
Whitespace == {" ", "\t", "\n", "\r", "\f"}

\* re.search(r'[\+\-\*\/]{2,}', s) is not None
HasOperatorSequence(s) ==
  \E i \in 1..(Len(s) - 1) : s[i] \in Operators /\ s[i + 1] \in Operators

\* Mutant of HasDivisionByZero: the pattern without its lookahead, /\s*0.
HasDivisionByZeroNoLookahead(s) ==
  \E i \in 1..Len(s) :
    /\ s[i] = "/"
    /\ \E j \in (i + 1)..Len(s) :
         /\ \A k \in (i + 1)..(j - 1) : s[k] \in Whitespace
         /\ s[j] = "0"

\* re.search(r'/\s*0(?![.])', s) is not None
HasDivisionByZero(s) ==
  \E i \in 1..Len(s) :
    /\ s[i] = "/"
    /\ \E j \in (i + 1)..Len(s) :
         /\ \A k \in (i + 1)..(j - 1) : s[k] \in Whitespace
         /\ s[j] = "0"
         /\ (j = Len(s) \/ s[j + 1] # ".")

\* Mutant of SubNumbers: the pattern without the decimal point, \d+.
RECURSIVE SubNumbersDigitsOnly(_)
SubNumbersDigitsOnly(s) ==
  IF s = <<>> THEN <<>>
  ELSE IF Head(s) \in Digits
       THEN LET rest == SubNumbersDigitsOnly(Tail(s))
            IN  IF Len(s) > 1 /\ s[2] \in Digits
                THEN rest
                ELSE <<"x">> \o rest
       ELSE <<Head(s)>> \o SubNumbersDigitsOnly(Tail(s))

\* re.sub(r'[\d.]+', 'x', s): every maximal run of digits and dots becomes one x.
RECURSIVE SubNumbers(_)
SubNumbers(s) ==
  IF s = <<>> THEN <<>>
  ELSE IF Head(s) \in Digits \cup {"."}
       THEN LET rest == SubNumbers(Tail(s))
            IN  IF Len(s) > 1 /\ s[2] \in Digits \cup {"."}
                THEN rest
                ELSE <<"x">> \o rest
       ELSE <<Head(s)>> \o SubNumbers(Tail(s))

\* re.sub(r'[\+\-\*\/\(\)]', 'x', s): every operator or parenthesis becomes x.
SubOperators(s) ==
  [i \in 1..Len(s) |-> IF s[i] \in OperatorsAndParens THEN "x" ELSE s[i]]

\* re.search(r'[^\sx]', s) is not None
HasOtherThanSpaceOrX(s) ==
  \E i \in 1..Len(s) : s[i] \notin Whitespace \cup {"x"}

\* Mutant of SyntaxCheck: the simplified text is indexed, which raises
\* IndexError when it is empty.
SyntaxCheckIndexing(s) ==
  IF SubOperators(SubNumbers(s)) = <<>>
  THEN Raises("IndexError", "string index out of range")
  ELSE Returns(HasOtherThanSpaceOrX(SubOperators(SubNumbers(s))))

\* The body of the try block of validate_expression: whether anything but
\* whitespace and x is left after the two substitutions.  On a str neither
\* re.sub nor re.search raises.
SyntaxCheck(s) ==
  Returns(HasOtherThanSpaceOrX(SubOperators(SubNumbers(s))))

\* Mutant of validate_expression: the division check before the operator check.
validate_expression_DivisionFirst(e) ==
  IF e.type # "str"
  THEN Raises("TypeError", "expected string or bytes-like object")
  ELSE IF HasDivisionByZero(e.value)
       THEN Returns(Str("Division by zero"))
       ELSE IF HasOperatorSequence(e.value)
            THEN Returns(Str("Invalid operator sequence"))
            ELSE IF SyntaxCheck(e.value).raised
                 THEN Returns(Str("Invalid expression format"))
                 ELSE IF SyntaxCheck(e.value).value
                      THEN Returns(Str("Invalid characters in expression"))
                      ELSE Returns(True)

\* Mutant of validate_expression: the character check before the other two.
validate_expression_CharactersFirst(e) ==
  IF e.type # "str"
  THEN Raises("TypeError", "expected string or bytes-like object")
  ELSE IF SyntaxCheck(e.value).raised
       THEN Returns(Str("Invalid expression format"))
       ELSE IF SyntaxCheck(e.value).value
            THEN Returns(Str("Invalid characters in expression"))
            ELSE IF HasOperatorSequence(e.value)
                 THEN Returns(Str("Invalid operator sequence"))
                 ELSE IF HasDivisionByZero(e.value)
                      THEN Returns(Str("Division by zero"))
                      ELSE Returns(True)

\* validate_expression: True, or the reason as a str; re.search raises
\* TypeError when the expression is no str.  An exception in the try block
\* would be answered "Invalid expression format".
validate_expression(e) ==
  IF e.type # "str"
  THEN Raises("TypeError", "expected string or bytes-like object")
  ELSE IF HasOperatorSequence(e.value)
       THEN Returns(Str("Invalid operator sequence"))
       ELSE IF HasDivisionByZero(e.value)
            THEN Returns(Str("Division by zero"))
            ELSE IF SyntaxCheck(e.value).raised
                 THEN Returns(Str("Invalid expression format"))
                 ELSE IF SyntaxCheck(e.value).value
                      THEN Returns(Str("Invalid characters in expression"))
                      ELSE Returns(True)

---------------------------------------------------------------------------
(* JSON text: a sequence of tokens, as json.dumps writes and json.loads reads *)

Punct(k) == [kind |-> k]

\* The token of one scalar value.
ScalarToken(v) ==
  IF v.type = "str" THEN [kind |-> "string", text |-> v.value]
  ELSE IF v.type = "int" THEN [kind |-> "number", text |-> v.value]
  ELSE Punct("null")

\* The value of one scalar token.
ScalarValue(tok) ==
  IF tok.kind = "string" THEN Str(tok.text)
  ELSE IF tok.kind = "number" THEN Number(tok.text)
  ELSE None

ScalarKinds == {"string", "number", "null"}

\* json.dumps of a flat mapping given as its <<key, value>> pairs in order.
RECURSIVE DumpMembers(_)
DumpMembers(pairs) ==
  IF pairs = <<>> THEN <<>>
  ELSE <<[kind |-> "string", text |-> pairs[1][1]], Punct(":"),
         ScalarToken(pairs[1][2])>>
       \o (IF Len(pairs) > 1 THEN <<Punct(",")>> ELSE <<>>)
       \o DumpMembers(Tail(pairs))

json_dumps(pairs) == <<Punct("{")>> \o DumpMembers(pairs) \o <<Punct("}")>>

\* The mapping m with m[key] set to v (a later key replaces an earlier one).
SetItem(m, key, v) ==
  [k \in (DOMAIN m) \cup {key} |-> IF k = key THEN v ELSE m[k]]

EmptyMapping == [k \in {} |-> None]

\* The members of an object from token i on, after "{" or ","; first says
\* whether "}" may close the object here.
RECURSIVE LoadMembers(_, _, _, _)
LoadMembers(toks, i, m, first) ==
  IF i > Len(toks)
  THEN Raises("JSONDecodeError",
              "Expecting property name enclosed in double quotes")
  ELSE IF first /\ toks[i].kind = "}"
  THEN IF i = Len(toks) THEN Returns(Dict(m))
       ELSE Raises("JSONDecodeError", "Extra data")
  ELSE IF toks[i].kind # "string"
  THEN Raises("JSONDecodeError",
              "Expecting property name enclosed in double quotes")
  ELSE IF i + 1 > Len(toks) \/ toks[i + 1].kind # ":"
  THEN Raises("JSONDecodeError", "Expecting ':' delimiter")
  ELSE IF i + 2 > Len(toks) \/ toks[i + 2].kind \notin ScalarKinds
  THEN Raises("JSONDecodeError", "Expecting value")
  ELSE LET m2 == SetItem(m, toks[i].text, ScalarValue(toks[i + 2]))
       IN  IF i + 3 > Len(toks)
           THEN Raises("JSONDecodeError", "Expecting ',' delimiter")
           ELSE IF toks[i + 3].kind = "}"
           THEN IF i + 3 = Len(toks) THEN Returns(Dict(m2))
                ELSE Raises("JSONDecodeError", "Extra data")
           ELSE IF toks[i + 3].kind = ","
           THEN LoadMembers(toks, i + 4, m2, FALSE)
           ELSE Raises("JSONDecodeError", "Expecting ',' delimiter")

\* json.loads(s): the parsed value, or the exception it raises.  Objects are
\* flat (their values are scalars).
json_loads(s) ==
  IF s.type # "str"
  THEN Raises("TypeError",
              "the JSON object must be str, bytes or bytearray, not NoneType")
  ELSE LET toks == s.value
       IN  IF Len(toks) = 0 THEN Raises("JSONDecodeError", "Expecting value")
           ELSE IF toks[1].kind = "{"
           THEN LoadMembers(toks, 2, EmptyMapping, TRUE)
           ELSE IF toks[1].kind \in ScalarKinds
           THEN IF Len(toks) = 1 THEN Returns(ScalarValue(toks[1]))
                ELSE Raises("JSONDecodeError", "Extra data")
           ELSE Raises("JSONDecodeError", "Expecting value")

---------------------------------------------------------------------------
(* The inputs of a call *)

\* The characters the enumerated expressions are written in: two digits, the
\* decimal point, three operators, a parenthesis, a blank and two letters.
Alphabet == {"0", "1", ".", "+", "*", "/", "(", " ", "x", "a"}

\* Every string over the alphabet of length n.
RECURSIVE StringsOfLength(_)
StringsOfLength(n) ==
  IF n = 0 THEN {<<>>}
  ELSE {Append(s, c) : s \in StringsOfLength(n - 1), c \in Alphabet}

\* The expressions the tests of the repository use.
ScenarioExpressions ==
  { <<"2", " ", "+", " ", "2">>,
    <<"2", " ", "+", "+", " ", "2">>,
    <<"1", " ", "/", " ", "0">>,
    <<"1", " ", "/", " ", " ", "0">>,
    <<"1", " ", "/", " ", "0", " ", "+", " ", "1">>,
    <<"1", " ", "/", " ", "0", ".", "0">>,
    <<"1", " ", "/", " ", "0", ".", "5">>,
    <<"1", "/", "0", ".", "0">>,
    <<"1", "/", "0", ".", "5">>,
    <<"2", " ", "x", " ", "3">>,
    <<"2", " ", "+", " ", "a", "b", "c">>,
    <<"1", "0", " ", "-", " ", "5">>,
    <<"7", " ", "^", " ", "2">>,
    <<"1", " ", "+", " ", "$">>,
    <<"(", "1", "0", " ", "+", " ", "5", ")", " ", "*", " ", "2", " ", "-",
      " ", "3">> }

\* The expression values a front end hands over: strings, and the other
\* truthy JSON values the HTTP handler takes from the request body.
Expressions ==
  {Str(s) : s \in UNION {StringsOfLength(n) : n \in 0..MaxLen}
                  \cup ScenarioExpressions}
  \cup {Number(5)}

Models == {"gpt-3.5-turbo", "gpt-custom"}

\* Temperatures, written as their literals.
Temperatures == {"0.0", "0.75"}

---------------------------------------------------------------------------
(* The request of process_calculation *)

system_message ==
  "You are a precise calculator. When evaluating mathematical expressions: 1. Always follow standard mathematical order of operations (PEMDAS) 2. For mixed operations, use the 'mixed' operation type 3. Return exact numerical results 4. Validate all inputs thoroughly"

\* The f-string of the user message: the fixed text, then the expression.
UserContent(e) ==
  <<"Calculate this expression and provide the result: ">> \o e.value

\* The enum of operation_type in the declared schema.
OperationTypes ==
  {"addition", "subtraction", "multiplication", "division", "mixed"}

get_calculator_functions ==
  << [name |-> "calculate",
      description |-> "Calculate the result of a mathematical expression",
      parameters |->
        [type |-> "object",
         properties |-> {"expression", "result", "operation_type"},
         operation_type_enum |-> OperationTypes,
         required |-> {"expression", "result", "operation_type"}]] >>

\* Mutant of CreateRequest: the capability is offered, not forced.
CreateRequestNotForced(e, m, t) ==
  [model |-> m,
   temperature |-> t,
   messages |-> << [role |-> "system", content |-> <<system_message>>],
                   [role |-> "user", content |-> UserContent(e)] >>,
   functions |-> get_calculator_functions,
   function_call |-> [name |-> "auto"]]

\* The keyword arguments of client.chat.completions.create.
CreateRequest(e, m, t) ==
  [model |-> m,
   temperature |-> t,
   messages |-> << [role |-> "system", content |-> <<system_message>>],
                   [role |-> "user", content |-> UserContent(e)] >>,
   functions |-> get_calculator_functions,
   function_call |-> [name |-> "calculate"]]

\* Mutant of ValidationFailure: a fixed message in place of the reason.
ValidationFailureFixedMessage(reason, e) ==
  Dict([error |-> Str("Invalid expression"), expression |-> e,
        status |-> Str("failed")])

\* The mapping returned when validation fails.
ValidationFailure(reason, e) ==
  Dict([error |-> reason, expression |-> e, status |-> Str("failed")])

\* Mutant of ExceptionFailure: the status key is left out.
ExceptionFailureNoStatus(description, e) ==
  Dict([error |-> Str(description), expression |-> e])

\* The mapping returned from the except clause.
ExceptionFailure(description, e) ==
  Dict([error |-> Str(description), expression |-> e,
        status |-> Str("failed")])

---------------------------------------------------------------------------
(* The completion service: what create(...) may do with a request *)

\* Descriptions of the exceptions create may raise.
ServiceErrors == {"OpenAI API Error", "Connection error."}

\* Replies whose arguments are a JSON object.
ObjectReplies ==
  {"addition", "mixed", "exponentiation", "wrong_echo", "result_and_error",
   "empty_object"}

\* Replies with no usable arguments.
BrokenReplies ==
  {"null", "no_choices", "no_function_call", "arguments_none", "not_json",
   "truncated", "empty_text"}

\* The pairs of the object the service writes for reply b to expression e.
PayloadPairs(b, e) ==
  CASE b = "addition" ->
         << <<"expression", e>>, <<"result", Number(4)>>,
            <<"operation_type", Str("addition")>> >>
    [] b = "mixed" ->
         << <<"expression", e>>, <<"result", Number(27)>>,
            <<"operation_type", Str("mixed")>> >>
    [] b = "exponentiation" ->
         << <<"expression", e>>, <<"result", Number(49)>>,
            <<"operation_type", Str("exponentiation")>> >>
    [] b = "wrong_echo" ->
         << <<"expression", Str(<<"0">>)>>, <<"result", Number(0)>>,
            <<"operation_type", Str("addition")>> >>
    [] b = "result_and_error" ->
         << <<"expression", e>>, <<"result", Number(4)>>,
            <<"operation_type", Str("addition")>>,
            <<"error", Str("approximate")>> >>
    [] OTHER -> <<>>

\* The mapping a sequence of pairs with distinct keys stands for.
PairsMapping(pairs) ==
  [k \in {pairs[i][1] : i \in DOMAIN pairs} |->
     pairs[CHOOSE i \in DOMAIN pairs : pairs[i][1] = k][2]]

\* The arguments string of reply b.
Arguments(b, e) ==
  CASE b \in ObjectReplies -> Str(json_dumps(PayloadPairs(b, e)))
    [] b = "null" -> Str(<<Punct("null")>>)
    [] b = "not_json" -> Str(<<[kind |-> "text", text |-> "The result is 4"]>>)
    [] b = "truncated" ->
         Str(<<Punct("{"), [kind |-> "string", text |-> "expression"],
               Punct(":")>>)
    [] b = "empty_text" -> Str(<<>>)
    [] OTHER -> None

\* The response object of reply b, as the tests' mocks build it.
Response(b, e) ==
  IF b = "no_choices" THEN [choices |-> <<>>]
  ELSE IF b = "no_function_call"
  THEN [choices |-> << [message |-> [function_call |-> None]] >>]
  ELSE [choices |->
          << [message |->
                [function_call |->
                   [name |-> "calculate", arguments |-> Arguments(b, e)]]] >>]

NoReply == [act |-> "none"]

\* No earlier call is kept.
NoCall == [known |-> FALSE]

\* Initialisation has not run.
NotRun == [run |-> FALSE, api_key |-> FALSE, constructs |-> FALSE]

\* handle_calculate has not answered.
NoResponse == [status |-> 0, body |-> Str(<<>>)]

\* evaluate_expression has not returned.
NotReturned == [returned |-> FALSE, value |-> None]

\* The client object OpenAI(api_key=...) constructs.
TheClient == [type |-> "OpenAI", value |-> "client"]

---------------------------------------------------------------------------
(* process_calculation *)

\* response.choices[0].message.function_call, then
\* json.loads(function_call.arguments): the value, or the exception raised.
ParseResponse(response) ==
  IF Len(response.choices) = 0
  THEN Raises("IndexError", "list index out of range")
  ELSE LET function_call == response.choices[1].message.function_call
       IN  IF function_call = None
           THEN Raises("AttributeError",
                       "'NoneType' object has no attribute 'arguments'")
           ELSE json_loads(function_call.arguments)

Init ==
  /\ pc = "idle"
  /\ expression = None
  /\ model = ""
  /\ temperature = ""
  /\ validation_result = None
  /\ requests = <<>>
  /\ reply = NoReply
  /\ payload = None
  /\ result = None
  /\ raised = None
  /\ caller = "none"
  /\ earlier = NoCall
  /\ imported = TRUE
  /\ client = None
  /\ openai_client = None
  /\ http_init = NotRun
  /\ tool_init = NotRun
  /\ http_request = None
  /\ http_response = NoResponse
  /\ tool_result = NotReturned

\* process_calculation(client, e, m, t) is called directly, as the unit
\* tests do with a client of their own.
Call(e, m, t) ==
  /\ pc = "idle"
  /\ caller = "none"
  /\ pc' = "validating"
  /\ caller' = "direct"
  /\ expression' = e
  /\ model' = m
  /\ temperature' = t
  /\ UNCHANGED <<validation_result, requests, reply, payload, result, raised,
                 earlier, servervars>>

\* validate_expression runs; on a reason the call returns the failure
\* mapping, otherwise it enters the try block and calls create once.
Validate ==
  /\ pc = "validating"
  /\ LET v == validate_expression(expression)
     IN  IF v.raised
         THEN /\ pc' = "raised"
              /\ raised' = v.value
              /\ UNCHANGED <<validation_result, requests, result>>
         ELSE /\ validation_result' = v.value
              /\ raised' = raised
              /\ IF v.value # True
                 THEN /\ pc' = "invalid"
                      /\ result' = ValidationFailure(v.value, expression)
                      /\ requests' = requests
                 ELSE /\ pc' = "awaiting-service"
                      /\ requests' =
                           Append(requests,
                                  CreateRequest(expression, model, temperature))
                      /\ result' = result
  /\ UNCHANGED <<expression, model, temperature, reply, payload, caller,
                 earlier, servervars>>

\* create raises Exception(d); the except clause returns the failure mapping.
ServiceRaises(d) ==
  /\ pc = "awaiting-service"
  /\ reply' = [act |-> "raise", description |-> d]
  /\ result' = ExceptionFailure(d, expression)
  /\ pc' = "done"
  /\ UNCHANGED <<expression, model, temperature, validation_result, requests,
                 payload, raised, caller, earlier, servervars>>

\* create returns the response of reply b; the call returns what json.loads
\* gives, or the failure mapping of the exception raised on the way.
ServiceResponds(b) ==
  /\ pc = "awaiting-service"
  /\ LET response == Response(b, expression)
         parsed == ParseResponse(response)
     IN  /\ reply' = [act |-> "respond", response |-> response]
         /\ payload' = IF b \in ObjectReplies
                       THEN Dict(PairsMapping(PayloadPairs(b, expression)))
                       ELSE None
         /\ result' = IF parsed.raised
                      THEN ExceptionFailure(parsed.value.description, expression)
                      ELSE parsed.value
  /\ pc' = "done"
  /\ UNCHANGED <<expression, model, temperature, validation_result, requests,
                 raised, caller, earlier, servervars>>

\* Nothing of a call outlives it: its arguments and locals are gone.
ForgetCall ==
  /\ pc' = "idle"
  /\ expression' = None
  /\ model' = ""
  /\ temperature' = ""
  /\ validation_result' = None
  /\ requests' = <<>>
  /\ reply' = NoReply
  /\ payload' = None
  /\ result' = None
  /\ raised' = None

\* Mutant of Return: the requests made so far are kept, as a module-level
\* list would be.
ReturnKeepingRequests ==
  /\ pc \in {"invalid", "done", "raised"}
  /\ caller = "direct"
  /\ pc' = "idle"
  /\ expression' = None
  /\ model' = ""
  /\ temperature' = ""
  /\ validation_result' = None
  /\ requests' = requests
  /\ reply' = NoReply
  /\ payload' = None
  /\ result' = None
  /\ raised' = None
  /\ caller' = "none"
  /\ UNCHANGED <<earlier, servervars>>

\* The direct call is over; the core keeps nothing of it.
Return ==
  /\ pc \in {"invalid", "done", "raised"}
  /\ caller = "direct"
  /\ ForgetCall
  /\ caller' = "none"
  /\ UNCHANGED <<earlier, servervars>>

Next ==
  \/ /\ pc = "idle"
     /\ \E e \in Expressions, m \in Models, t \in Temperatures : Call(e, m, t)
  \/ Validate
  \/ \E d \in ServiceErrors : ServiceRaises(d)
  \/ \E b \in ObjectReplies \cup BrokenReplies : ServiceResponds(b)
  \/ Return

Spec == Init /\ [][Next]_vars

---------------------------------------------------------------------------
(* Calls one after another, one of them kept for comparison *)

\* The expressions of the calls that are compared.
ProbeExpressions ==
  { Str(<<>>),
    Str(<<"x">>),
    Str(<<"2", " ", "+", " ", "2">>),
    Str(<<"2", " ", "+", "+", " ", "2">>),
    Str(<<"1", " ", "/", " ", "0">>),
    Str(<<"2", " ", "+", " ", "a", "b", "c">>),
    Number(5) }

\* The direct call is over and is the one kept: its arguments, what the
\* service did and how it ended.
ReturnRemembered ==
  /\ pc \in {"invalid", "done", "raised"}
  /\ caller = "direct"
  /\ earlier = NoCall
  /\ earlier' = [known |-> TRUE, expression |-> expression, model |-> model,
                 temperature |-> temperature, requests |-> requests,
                 reply |-> reply, outcome |-> pc, result |-> result,
                 raised |-> raised]
  /\ ForgetCall
  /\ caller' = "none"
  /\ UNCHANGED servervars

NextHistory ==
  \/ /\ pc = "idle"
     /\ \E e \in ProbeExpressions, m \in Models, t \in Temperatures :
          Call(e, m, t)
  \/ Validate
  \/ \E d \in ServiceErrors : ServiceRaises(d)
  \/ \E b \in ObjectReplies \cup BrokenReplies : ServiceResponds(b)
  \/ Return
  \/ ReturnRemembered

SpecHistory == Init /\ [][NextHistory]_vars

---------------------------------------------------------------------------
(* Properties *)

\* The call has run validate_expression and got its answer.
Validated == pc \in {"invalid", "awaiting-service", "done"}

\* The call has returned a value.
Returned == pc \in {"invalid", "done"}

\* validate_expression rejects e: it returns a reason.
Rejects(e) ==
  LET v == validate_expression(e) IN ~v.raised /\ v.value # True

\* The three reasons of the validator.
Reasons ==
  {Str("Invalid operator sequence"), Str("Division by zero"),
   Str("Invalid characters in expression")}

\* C1: whenever validate_expression rejects the expression, the call returns
\* {error: the validator's reason, expression: the input, status: "failed"}
\* and create has not been called.
C1_RejectedNeverReachesService ==
  (pc # "idle" /\ pc # "validating" /\ Rejects(expression)) =>
    /\ pc = "invalid"
    /\ validation_result \in Reasons
    /\ result = Dict([error |-> validate_expression(expression).value,
                      expression |-> expression,
                      status |-> Str("failed")])
    /\ requests = <<>>
    /\ reply = NoReply

\* A division by zero has been rejected and the failure mapping returned.
C1_Witness ==
  /\ pc = "invalid"
  /\ expression = Str(<<"1", " ", "/", " ", "0">>)
  /\ result.value.error = Str("Division by zero")

\* A success mapping: exactly expression, result, operation_type, the latter
\* in the declared enumeration.
SuccessShape(r) ==
  /\ r.type = "dict"
  /\ DOMAIN r.value = {"expression", "result", "operation_type"}
  /\ r.value["operation_type"] \in {Str(o) : o \in OperationTypes}

\* A failure mapping: exactly error, expression, status = "failed".
FailureShape(r) ==
  /\ r.type = "dict"
  /\ DOMAIN r.value = {"error", "expression", "status"}
  /\ r.value["status"] = Str("failed")

\* C2: every value process_calculation returns is a success mapping or a
\* failure mapping, and never holds both result and error.
C2_ResultHasOneOfTwoShapes ==
  Returned =>
    /\ SuccessShape(result) \/ FailureShape(result)
    /\ ~({"result", "error"} \subseteq DOMAIN result.value)

\* C3: process_calculation never raises; every call returns a mapping.
C3_NeverRaises ==
  /\ pc # "raised"
  /\ Returned => result.type = "dict"

\* C4: when validation passes and create raises, the call returns exactly
\* {error: the exception's description, expression: the input, status:
\* "failed"} and create was called exactly once.
C4_ServiceExceptionIsReturned ==
  (pc = "done" /\ reply.act = "raise") =>
    /\ validation_result = True
    /\ result.type = "dict"
    /\ DOMAIN result.value = {"error", "expression", "status"}
    /\ result.value["error"] = Str(reply.description)
    /\ result.value["expression"] = expression
    /\ result.value["status"] = Str("failed")
    /\ Len(requests) = 1

\* The service raised "OpenAI API Error" on "10 - 5" and the call returned.
C4_Witness ==
  /\ pc = "done"
  /\ reply = [act |-> "raise", description |-> "OpenAI API Error"]
  /\ expression = Str(<<"1", "0", " ", "-", " ", "5">>)
  /\ result.value["error"] = Str("OpenAI API Error")

\* Two neighbouring characters of s are both operator characters.
AdjacentOperators(s) ==
  \E i \in 1..(Len(s) - 1) : {s[i], s[i + 1]} \subseteq {"+", "-", "*", "/"}

\* Some "/" of s has "0" as the first character after it that is no
\* whitespace, and that "0" is not directly followed by ".".
DividesByLiteralZero(s) ==
  \E i \in 1..Len(s) :
    /\ s[i] = "/"
    /\ LET after == {j \in (i + 1)..Len(s) : s[j] \notin Whitespace}
       IN  /\ after # {}
           /\ LET j == CHOOSE n \in after : \A n2 \in after : n <= n2
              IN  s[j] = "0" /\ (j < Len(s) => s[j + 1] # ".")

\* The characters the validator is documented to accept.
AcceptedCharacters ==
  Digits \cup {".", "+", "-", "*", "/", "(", ")"} \cup Whitespace

\* C5: an expression with two adjacent operator characters is answered
\* "Invalid operator sequence" and the service is never contacted.
C5_OperatorSequenceRejected ==
  (Validated /\ AdjacentOperators(expression.value)) =>
    /\ validation_result = Str("Invalid operator sequence")
    /\ pc = "invalid"
    /\ result.value["error"] = Str("Invalid operator sequence")
    /\ requests = <<>>
    /\ reply = NoReply

\* "2 ++ 2" has been rejected for its operator sequence.
C5_Witness ==
  /\ pc = "invalid"
  /\ expression = Str(<<"2", " ", "+", "+", " ", "2">>)
  /\ validation_result = Str("Invalid operator sequence")
  /\ requests = <<>>

\* C6 as stated: every expression with "/", optional whitespace, "0" not
\* followed by "." is answered "Division by zero".
C6_Original ==
  (Validated /\ DividesByLiteralZero(expression.value)) =>
    validation_result = Str("Division by zero")

\* C6 as amended: such an expression is answered "Division by zero" when it
\* has no two adjacent operator characters; an expression without such an
\* occurrence is never answered "Division by zero"; "1/0.0" and "1/0.5"
\* pass validation.
C6_DivisionByZeroRejected ==
  Validated =>
    /\ (DividesByLiteralZero(expression.value)
          /\ ~AdjacentOperators(expression.value))
         => (validation_result = Str("Division by zero") /\ pc = "invalid")
    /\ ~DividesByLiteralZero(expression.value)
         => validation_result # Str("Division by zero")
    /\ expression \in {Str(<<"1", "/", "0", ".", "0">>),
                        Str(<<"1", "/", "0", ".", "5">>)}
         => validation_result = True

\* "1 /  0" (two blanks) has been rejected as a division by zero.
C6_Witness ==
  /\ pc = "invalid"
  /\ expression = Str(<<"1", " ", "/", " ", " ", "0">>)
  /\ validation_result = Str("Division by zero")

\* C7: an expression with a character outside digits, ".", + - * / ( ) and
\* whitespace is answered "Invalid characters in expression".
C7_InvalidCharactersRejected ==
  (Validated /\ \E i \in 1..Len(expression.value) :
                   expression.value[i] \notin AcceptedCharacters) =>
    validation_result = Str("Invalid characters in expression")

\* C8: an expression of accepted characters only, with no two adjacent
\* operators and no division by a literal zero, passes validation and is
\* forwarded to the service with one create call.
C8_WellFormedPasses ==
  (Validated
     /\ (\A i \in 1..Len(expression.value) :
           expression.value[i] \in AcceptedCharacters)
     /\ ~AdjacentOperators(expression.value)
     /\ ~DividesByLiteralZero(expression.value)) =>
    /\ validation_result = True
    /\ pc \in {"awaiting-service", "done"}
    /\ Len(requests) = 1
    /\ LET content == requests[1].messages[2].content
       IN  SubSeq(content, 2, Len(content)) = expression.value

\* A whitespace-only expression passed and its request is with the service.
C8_Witness ==
  /\ pc = "awaiting-service"
  /\ expression = Str(<<" ">>)
  /\ validation_result = True
  /\ Len(requests) = 1

\* The text process_calculation puts before the expression.
UserPrefix == "Calculate this expression and provide the result: "

\* C9: when validation passes and the service answers with an object, the
\* call returns that object unchanged, after exactly one create call whose
\* user message ends with the literal expression and whose function_call
\* names "calculate".
C9_PayloadReturnedUnchanged ==
  (pc = "done" /\ payload.type = "dict") =>
    /\ validation_result = True
    /\ result = payload
    /\ Len(requests) = 1
    /\ requests[1].messages[2].role = "user"
    /\ requests[1].messages[2].content = <<UserPrefix>> \o expression.value
    /\ requests[1].function_call = [name |-> "calculate"]
    /\ requests[1].functions[1].name = "calculate"

\* The service answered "2 + 2" with its addition payload, which came back.
C9_Witness ==
  /\ pc = "done"
  /\ expression = Str(<<"2", " ", "+", " ", "2">>)
  /\ payload = Dict([expression |-> expression, result |-> Number(4),
                     operation_type |-> Str("addition")])
  /\ result = payload

\* C10: the call for "7 ^ 2" with model "gpt-custom" and temperature 0.75
\* calls create exactly once with that model and temperature and
\* function_call {name: "calculate"}, and returns the service's payload.
C10_ModelAndTemperaturePassed ==
  (Returned /\ expression = Str(<<"7", " ", "^", " ", "2">>)
            /\ model = "gpt-custom" /\ temperature = "0.75") =>
    /\ Len(requests) = 1
    /\ requests[1].model = "gpt-custom"
    /\ requests[1].temperature = "0.75"
    /\ requests[1].function_call = [name |-> "calculate"]
    /\ payload.type = "dict" => result = payload

\* C15: the validator's checks run in the order operator sequence, division
\* by zero, characters, and the first that fails gives the reason.
C15_EarliestCheckGivesReason ==
  Validated =>
    /\ AdjacentOperators(expression.value)
         => validation_result = Str("Invalid operator sequence")
    /\ (~AdjacentOperators(expression.value)
          /\ DividesByLiteralZero(expression.value))
         => validation_result = Str("Division by zero")
    /\ validation_result = Str("Invalid characters in expression")
         => (~AdjacentOperators(expression.value)
              /\ ~DividesByLiteralZero(expression.value))

\* "/0a" trips the division check and the character check and has been
\* answered by the earlier one.
C15_Witness ==
  /\ pc = "invalid"
  /\ expression = Str(<<"/", "0", "a">>)
  /\ validation_result = Str("Division by zero")

\* C17: for a string the validator answers True or one of its three
\* reasons, and the error of a validation failure is one of the three.
C17_OnlyThreeReasons ==
  Validated =>
    /\ validation_result \in Reasons \cup {True}
    /\ validate_expression(expression).value \in Reasons \cup {True}
    /\ pc = "invalid" =>
         (result.value["error"] \in Reasons
            /\ result.value["error"] # Str("Invalid expression format"))

\* An expression of letters only has been answered with the third reason.
C17_Witness ==
  /\ pc = "invalid"
  /\ expression = Str(<<"a", "a">>)
  /\ result.value["error"] = Str("Invalid characters in expression")

\* One step of a call as the state machine of the design allows it.
CallStep ==
  /\ (pc = "validating" /\ pc' # pc) => pc' \in {"invalid", "awaiting-service"}
  /\ (pc = "awaiting-service" /\ pc' # pc) => pc' = "done"
  /\ (pc \in {"invalid", "done"} /\ pc' # pc) => pc' = "idle"
  /\ (pc = "awaiting-service" /\ reply' # NoReply) => pc' = "done"
  /\ Len(requests') <= 1
  /\ pc' \in {"awaiting-service", "done"} => Len(requests') = 1
  /\ pc' = "invalid" => requests' = <<>>
  /\ (pc = "done" /\ pc' = "done") => requests' = requests

\* C16: every call goes validating -> invalid or validating ->
\* awaiting-service -> done, is over as soon as the service has returned or
\* raised, and contacts the service at most once: exactly once when
\* validation passes, never again after a failure.
C16_CallStateMachine == [][CallStep]_vars

---------------------------------------------------------------------------
(* The front ends: mcp_server (HTTP) and mcp_calculator_server (tools) *)

\* What the environment holds when a server initialises: whether
\* OPENAI_API_KEY is set, and whether OpenAI(api_key=...) constructs.
Environments ==
  [run : {TRUE}, api_key : BOOLEAN, constructs : BOOLEAN]

\* Mutant of InitializedClient: the key is not checked before constructing.
InitializedClientWithoutKey(env) ==
  IF ~env.constructs THEN None ELSE TheClient

\* The client initialize_openai_client leaves: load_calculator_env, or the
\* fallback check when it was not imported, raises EnvironmentError without
\* a key; a constructor that raises is caught as well.
InitializedClient(env) ==
  IF ~env.api_key THEN None
  ELSE IF ~env.constructs THEN None
  ELSE TheClient

\* The client app_lifespan leaves: None without load_environment, None when
\* it raises or the key is missing, None when the constructor raises.
LifespanClient(env, imp) ==
  IF ~imp THEN None
  ELSE IF ~env.api_key THEN None
  ELSE IF ~env.constructs THEN None
  ELSE TheClient

\* Python's truth test on a JSON value: None, "", 0, {} and [] are false.
Falsy(v) ==
  \/ v.type = "NoneType"
  \/ v.type = "str" /\ Len(v.value) = 0
  \/ v.type = "int" /\ v.value = 0
  \/ v.type = "dict" /\ DOMAIN v.value = {}
  \/ v.type = "list" /\ Len(v.value) = 0

\* m.get(key, default) on a mapping.
Get(m, key, default) == IF key \in DOMAIN m THEN m[key] ELSE default

\* The <<key, value>> pairs of a mapping, in the order they are written.
RECURSIVE MappingPairs(_, _)
MappingPairs(m, keys) ==
  IF keys = {} THEN <<>>
  ELSE LET k == CHOOSE x \in keys : TRUE
       IN  <<<<k, m[k]>>>> \o MappingPairs(m, keys \ {k})

\* jsonify(v): the JSON text of a flat mapping or of a scalar.
jsonify(v) ==
  IF v.type = "dict"
  THEN Str(json_dumps(MappingPairs(v.value, DOMAIN v.value)))
  ELSE Str(<<ScalarToken(v)>>)

\* return jsonify({"error": message}), status
ErrorResponse(status, message) ==
  [status |-> status, body |-> jsonify(Dict(SetItem(EmptyMapping, "error", Str(message))))]

\* The answer Flask gives itself when the view raises or the body does not
\* parse: the status with a page of its own.
FrameworkResponse(status) ==
  [status |-> status, body |-> Str(<<Punct("<!doctype html>")>>)]

\* The bodies a request carries: text that is not JSON, null, {}, an array,
\* or an object with some of the keys expression, model and temperature.
BodyKinds == {"malformed", "null", "empty_object", "array", "object"}

\* The values of 'expression' in a body: empty, zero, well formed, rejected
\* by the validator, and a number.
HttpExpressions ==
  { Str(<<>>),
    Number(0),
    Str(<<"2", " ", "+", " ", "2">>),
    Str(<<"1", " ", "/", " ", "0">>),
    Number(5) }

\* The request: its content type, whether its body parses, and the parsed
\* body.
Request(is_json, kind, keys, e, m, t) ==
  [is_json |-> is_json,
   parses |-> kind # "malformed",
   data |-> IF kind \in {"malformed", "null"} THEN None
            ELSE IF kind = "empty_object" THEN Dict(EmptyMapping)
            ELSE IF kind = "array" THEN [type |-> "list", value |-> <<Number(1)>>]
            ELSE Dict([k \in keys |-> IF k = "expression" THEN e
                                      ELSE IF k = "model" THEN m ELSE t])]

\* Mutant of handle_calculate_checks: the dependencies are checked before
\* the request.
handle_calculate_checks_DependenciesFirst(req, kept, cl, imp) ==
  IF cl = None
  THEN ErrorResponse(503, "OpenAI client not initialized. Check API key or server logs.")
  ELSE IF ~imp
  THEN ErrorResponse(503, "Calculation logic is unavailable due to import error. Check server logs.")
  ELSE IF ~req.is_json
  THEN ErrorResponse(400, "Invalid request: Content-Type must be application/json")
  ELSE IF ~req.parses /\ ~kept
  THEN FrameworkResponse(400)
  ELSE IF Falsy(req.data)
  THEN ErrorResponse(400, "Invalid request: Malformed JSON or empty payload")
  ELSE IF req.data.type # "dict"
  THEN FrameworkResponse(500)
  ELSE IF Falsy(Get(req.data.value, "expression", None))
  THEN ErrorResponse(400, "Invalid request: 'expression' is required")
  ELSE NoResponse

\* The answer handle_calculate gives before it calls the core, or
\* NoResponse when the request passes every check.  A body that does not
\* parse makes request.get_json() raise BadRequest, answered by Flask,
\* unless the build kept the None of the silent call made for logging
\* (kept); a body that is not an object has no get, and Flask answers the
\* AttributeError with 500.
handle_calculate_checks(req, kept, cl, imp) ==
  IF ~req.is_json
  THEN ErrorResponse(400, "Invalid request: Content-Type must be application/json")
  ELSE IF ~req.parses /\ ~kept
  THEN FrameworkResponse(400)
  ELSE IF Falsy(req.data)
  THEN ErrorResponse(400, "Invalid request: Malformed JSON or empty payload")
  ELSE IF req.data.type # "dict"
  THEN FrameworkResponse(500)
  ELSE IF Falsy(Get(req.data.value, "expression", None))
  THEN ErrorResponse(400, "Invalid request: 'expression' is required")
  ELSE IF cl = None
  THEN ErrorResponse(503, "OpenAI client not initialized. Check API key or server logs.")
  ELSE IF ~imp
  THEN ErrorResponse(503, "Calculation logic is unavailable due to import error. Check server logs.")
  ELSE NoResponse

\* Mutant of CalculationResponse: the status follows the error key.
CalculationResponseByErrorKey(outcome, r) ==
  IF outcome = "raised"
  THEN ErrorResponse(500, "Calculation failed due to an internal server error")
  ELSE IF r.type = "dict" /\ "error" \in DOMAIN r.value
  THEN [status |-> 400, body |-> jsonify(r)]
  ELSE [status |-> 200, body |-> jsonify(r)]

\* The answer after the core was called: jsonify(result) with Flask's
\* default status 200, or 500 when the call raised.
CalculationResponse(outcome, r) ==
  IF outcome = "raised"
  THEN ErrorResponse(500, "Calculation failed due to an internal server error")
  ELSE [status |-> 200, body |-> jsonify(r)]

\* return {"error": message, "status": "failed"}
ToolError(message) ==
  [returned |-> TRUE,
   value |-> Dict(SetItem(SetItem(EmptyMapping, "error", Str(message)),
                          "status", Str("failed")))]

\* Mutant of evaluate_expression_checks: only the import is checked.
evaluate_expression_checks_ImportOnly(cl, imp) ==
  IF ~imp
  THEN ToolError("Calculator logic (process_calculation) not available due to import error.")
  ELSE NotReturned

\* What evaluate_expression returns before it calls the core, or
\* NotReturned when both dependencies are there.
evaluate_expression_checks(cl, imp) ==
  IF ~imp
  THEN ToolError("Calculator logic (process_calculation) not available due to import error.")
  ELSE IF cl = None
  THEN ToolError("OpenAI client not initialized. Check server logs for API key issues or initialization errors.")
  ELSE NotReturned

\* initialize_openai_client() runs, as at the start of __main__.
InitializeOpenAIClient(env) ==
  /\ caller = "none"
  /\ ~http_init.run
  /\ http_init' = env
  /\ client' = InitializedClient(env)
  /\ UNCHANGED <<callvars, caller, earlier, imported, openai_client,
                 tool_init, http_request, http_response, tool_result>>

\* app_lifespan runs up to its yield, when the tool server starts.
AppLifespan(env) ==
  /\ caller = "none"
  /\ ~tool_init.run
  /\ tool_init' = env
  /\ openai_client' = LifespanClient(env, imported)
  /\ UNCHANGED <<callvars, caller, earlier, imported, client, http_init,
                 http_request, http_response, tool_result>>

\* handle_calculate receives a request: it answers at once, or calls
\* process_calculation with the expression of the body and its model and
\* temperature, 'gpt-3.5-turbo' and 0.0 when the body has none.
HandleCalculate(req, kept) ==
  /\ caller = "none"
  /\ pc = "idle"
  /\ caller' = "http"
  /\ http_request' = req
  /\ LET answer == handle_calculate_checks(req, kept, client, imported)
     IN  IF answer.status # 0
         THEN /\ http_response' = answer
              /\ UNCHANGED callvars
         ELSE /\ http_response' = NoResponse
              /\ pc' = "validating"
              /\ expression' = req.data.value["expression"]
              /\ model' = Get(req.data.value, "model", "gpt-3.5-turbo")
              /\ temperature' = Get(req.data.value, "temperature", "0.0")
              /\ UNCHANGED <<validation_result, requests, reply, payload,
                             result, raised>>
  /\ UNCHANGED <<earlier, imported, client, openai_client, http_init,
                 tool_init, tool_result>>

\* process_calculation is back in handle_calculate, which answers.
HttpRespond ==
  /\ caller = "http"
  /\ pc \in {"invalid", "done", "raised"}
  /\ http_response.status = 0
  /\ http_response' = CalculationResponse(pc, result)
  /\ UNCHANGED <<callvars, caller, earlier, imported, client, openai_client,
                 http_init, tool_init, http_request, tool_result>>

\* The answer is sent; the request and the call are over.
HttpDone ==
  /\ caller = "http"
  /\ http_response.status # 0
  /\ ForgetCall
  /\ caller' = "none"
  /\ http_request' = None
  /\ http_response' = NoResponse
  /\ UNCHANGED <<earlier, imported, client, openai_client, http_init,
                 tool_init, tool_result>>

\* The tool evaluate_expression(e, m, t) is called: it returns at once, or
\* calls process_calculation with its arguments.
EvaluateExpression(e, m, t) ==
  /\ caller = "none"
  /\ pc = "idle"
  /\ caller' = "tool"
  /\ LET early == evaluate_expression_checks(openai_client, imported)
     IN  IF early.returned
         THEN /\ tool_result' = early
              /\ UNCHANGED callvars
         ELSE /\ tool_result' = NotReturned
              /\ pc' = "validating"
              /\ expression' = e
              /\ model' = m
              /\ temperature' = t
              /\ UNCHANGED <<validation_result, requests, reply, payload,
                             result, raised>>
  /\ UNCHANGED <<earlier, imported, client, openai_client, http_init,
                 tool_init, http_request, http_response>>

\* process_calculation is back in evaluate_expression, which returns what
\* it returned.
ToolReturn ==
  /\ caller = "tool"
  /\ pc \in {"invalid", "done"}
  /\ ~tool_result.returned
  /\ tool_result' = [returned |-> TRUE, value |-> result]
  /\ UNCHANGED <<callvars, caller, earlier, imported, client, openai_client,
                 http_init, tool_init, http_request, http_response>>

\* The tool call is over.
ToolDone ==
  /\ caller = "tool"
  /\ tool_result.returned
  /\ ForgetCall
  /\ caller' = "none"
  /\ tool_result' = NotReturned
  /\ UNCHANGED <<earlier, imported, client, openai_client, http_init,
                 tool_init, http_request, http_response>>

\* The expressions of tool calls and of direct calls beside the servers.
ToolExpressions ==
  { Str(<<"2", " ", "+", " ", "2">>),
    Str(<<"1", " ", "/", " ", "0">>) }

\* The servers start with the core imported or not.
InitServers ==
  /\ pc = "idle"
  /\ expression = None
  /\ model = ""
  /\ temperature = ""
  /\ validation_result = None
  /\ requests = <<>>
  /\ reply = NoReply
  /\ payload = None
  /\ result = None
  /\ raised = None
  /\ caller = "none"
  /\ earlier = NoCall
  /\ imported \in BOOLEAN
  /\ client = None
  /\ openai_client = None
  /\ http_init = NotRun
  /\ tool_init = NotRun
  /\ http_request = None
  /\ http_response = NoResponse
  /\ tool_result = NotReturned

NextServers ==
  \/ \E env \in Environments : InitializeOpenAIClient(env)
  \/ \E env \in Environments : AppLifespan(env)
  \/ /\ caller = "none"
     /\ \E is_json \in BOOLEAN, kind \in BodyKinds,
           keys \in SUBSET {"expression", "model", "temperature"},
           e \in HttpExpressions, kept \in BOOLEAN :
          HandleCalculate(Request(is_json, kind, keys, e, "gpt-custom", "0.75"), kept)
  \/ HttpRespond
  \/ HttpDone
  \/ /\ caller = "none"
     /\ \E e \in ToolExpressions, m \in Models, t \in Temperatures :
          EvaluateExpression(e, m, t)
  \/ ToolReturn
  \/ ToolDone
  \/ /\ caller = "none"
     /\ \E e \in ToolExpressions : Call(e, "gpt-3.5-turbo", "0.0")
  \/ Validate
  \/ \E d \in ServiceErrors : ServiceRaises(d)
  \/ \E b \in ObjectReplies \cup BrokenReplies : ServiceResponds(b)
  \/ Return

SpecServers == InitServers /\ [][NextServers]_vars

\* C11: a call with the arguments of an earlier call, to which the service
\* answers as it answered then, sends the same request and ends the same
\* way with the same mapping, whatever calls were made in between.
C11_SameCallSameResult ==
  (pc \in {"invalid", "done", "raised"} /\ earlier.known
     /\ expression = earlier.expression /\ model = earlier.model
     /\ temperature = earlier.temperature /\ reply = earlier.reply) =>
    /\ pc = earlier.outcome
    /\ requests = earlier.requests
    /\ result = earlier.result
    /\ raised = earlier.raised

\* "2 + 2" was answered with the addition payload twice, the second time
\* after the kept call, and returned that payload both times.
C11_Witness ==
  /\ pc = "done"
  /\ earlier.known
  /\ expression = Str(<<"2", " ", "+", " ", "2">>)
  /\ expression = earlier.expression /\ model = earlier.model
  /\ temperature = earlier.temperature /\ reply = earlier.reply
  /\ result = earlier.result
  /\ result = payload

\* The request handle_calculate is answering passes its three request
\* checks: JSON content type, an object for a body, a true 'expression'.
PassesRequestChecks ==
  /\ http_request.is_json
  /\ http_request.parses
  /\ http_request.data.type = "dict"
  /\ ~Falsy(Get(http_request.data.value, "expression", None))

\* The body of the answer is a JSON object with an error key.
ErrorBody ==
  /\ ~json_loads(http_response.body).raised
  /\ json_loads(http_response.body).value.type = "dict"
  /\ "error" \in DOMAIN json_loads(http_response.body).value.value

\* C12: the core is called with the expression of the body and with its
\* model and temperature, 'gpt-3.5-turbo' and 0.0 when absent; and a
\* mapping it returns, with or without an error key, is answered with
\* status 200 and a body that reads back as that mapping.
C12_MappingAnsweredWith200 ==
  (caller = "http" /\ pc # "idle") =>
    /\ expression = http_request.data.value["expression"]
    /\ model = Get(http_request.data.value, "model", "gpt-3.5-turbo")
    /\ temperature = Get(http_request.data.value, "temperature", "0.0")
    /\ (http_response.status # 0 /\ pc \in {"invalid", "done"}
          /\ result.type = "dict") =>
         /\ http_response.status = 200
         /\ json_loads(http_response.body) = Returns(result)

\* A body with only the expression "1 / 0": the core was called with the
\* defaults, returned a failure record, and the answer is 200 with it.
C12_Witness ==
  /\ caller = "http"
  /\ pc = "invalid"
  /\ DOMAIN http_request.data.value = {"expression"}
  /\ model = "gpt-3.5-turbo"
  /\ temperature = "0.0"
  /\ "error" \in DOMAIN result.value
  /\ http_response.status = 200
  /\ json_loads(http_response.body) = Returns(result)

\* The statement of C13 as it stands: while the handle is None or the core
\* is not imported, every request is answered 503.
C13_Original ==
  (caller = "http" /\ (client = None \/ ~imported)) =>
    /\ pc = "idle"
    /\ requests = <<>>
    /\ http_response.status = 503

\* C13: while its handle is None or the core is not imported, neither
\* front end calls the core or contacts the service; handle_calculate
\* answers at once, 503 with an error body when the request passes the
\* request checks, and evaluate_expression returns at once a mapping with
\* an error and status "failed".
C13_NoCallWithoutDependencies ==
  /\ (caller = "http" /\ (client = None \/ ~imported)) =>
       /\ pc = "idle"
       /\ requests = <<>>
       /\ http_response.status # 0
       /\ PassesRequestChecks => (http_response.status = 503 /\ ErrorBody)
  /\ (caller = "tool" /\ (openai_client = None \/ ~imported)) =>
       /\ pc = "idle"
       /\ requests = <<>>
       /\ tool_result.returned
       /\ tool_result.value.type = "dict"
       /\ "error" \in DOMAIN tool_result.value.value
       /\ tool_result.value.value["status"] = Str("failed")

\* Initialisation ran without a key and left no client; a request with an
\* expression is answered 503 and no call was made.
C13_Witness ==
  /\ caller = "http"
  /\ http_init.run
  /\ client = None
  /\ PassesRequestChecks
  /\ http_response.status = 503
  /\ pc = "idle"

HandleStep ==
  /\ client' # client => (~http_init.run /\ http_init'.run)
  /\ openai_client' # openai_client => (~tool_init.run /\ tool_init'.run)
  /\ (http_init'.run /\ (~http_init'.api_key \/ ~http_init'.constructs)) =>
       client' = None
  /\ (tool_init'.run
        /\ (~imported' \/ ~tool_init'.api_key \/ ~tool_init'.constructs)) =>
       openai_client' = None

\* C18: requests, tool calls and direct calls never change a handle; only
\* initialisation sets it, and to None when it fails.
C18_HandleKeptAfterInit == [][HandleStep]_vars

\* After a successful initialisation a request was answered 200 and the
\* client is still the one constructed.
C18_Witness ==
  /\ http_init.run
  /\ client = TheClient
  /\ caller = "http"
  /\ http_response.status = 200

=============================================================================
